---- MODULE Spec2Model ----
(***************************************************************************)
(* A model of the scroll/timer choreography of the magazine page:          *)
(*   - ArticleSection's timed reveal sequence (and LeadHeadlineSection's   *)
(*     line timer), as a timed state machine over React state and pending  *)
(*     setTimeout handles;                                                 *)
(*   - the scroll handlers of useStickyFadeOut, LightMetaphorSection,      *)
(*     TermFullscreenSection and ScrollRevealText over a measured region.  *)
(* Times are in milliseconds, lengths in CSS pixels.                       *)
(***************************************************************************)
EXTENDS Integers, Sequences, FiniteSets, TLC

\* ------------------------------------------------------------------------
\* Bounds of the model
\* ------------------------------------------------------------------------
\* External events (re-render, teardown, viewport entry) may fall on any
\* multiple of AdvanceStep ms between two timer deadlines.
AdvanceStep == 1000
\* The stopwatch since the last reveal saturates here.
ElapsedCap == 2500
\* The count of setIsNextVisible(true) calls saturates here.
MaxReadySets == 3
\* Scroll notifications per display frame.
MaxScrollsPerFrame == 3
\* Frames left requested by cleaned-up scroll effects at one time.
MaxStale == 2
\* Milliseconds between two display frames.
FrameMs == 500

\* ------------------------------------------------------------------------
\* Program constants of ArticleSection / LeadHeadlineSection
\* ------------------------------------------------------------------------
LineDelay == 1200
RevealInitialDelay == 200
RevealStagger == 60
RevealSettle == 1200
DefaultBlockDelay == 1000
NextVisibleDelay == 2000

VARIABLES
    \* ArticleSection
    mounted,          \* the component instance exists
    title,            \* prop: a string, as a sequence of characters
    bodyBlocks,       \* prop: a sequence of blocks (records, delay optional)
    observing,        \* the IntersectionObserver is connected
    isVisible, isLineDone, visibleBlocks, isNextVisible,   \* useState
    timers,           \* pending setTimeout of each effect: remaining ms, or Off
    \* observation (history) variables
    sinceReveal,      \* ms since the last stage was reached: viewport entry,
                      \* line done, or visibleBlocks set by a timer
    everScheduled,    \* the effects that ever called setTimeout
    readySets,        \* how many times setIsNextVisible(true) ran
    cancelled,        \* the timers cleared by the teardown
    \* the measured region and the viewport
    top, height, vh, vw,
    \* LeadHeadlineSection (useStickyFadeOut, observer, line timer)
    lhMounted, lhObserving, lhVisible, lhLineDone, lhTimer,
    lhCancelled,      \* observation: the teardown cleared a pending timer
    fadeStart,        \* the hook's parameter
    stickyProgress,   \* the progress of the last handleScroll
    stickyOpacity,    \* stickyRef.current.style.opacity
    \* LightMetaphorSection
    lightProgress, lightScale, pulseState, lightOpacity,
    \* TermFullscreenSection
    termMotif, scrollInfluence,
    \* ScrollRevealText
    srtMounted,       \* mounted, hence containerRef.current is attached
    srtAutoReveal, srtDuration,    \* props
    srtProgress,      \* useState
    srtObserving,     \* the autoReveal effect's observer is connected
    srtTicking,       \* the scroll effect's pending flag
    srtRaf,           \* the current scroll effect has a frame requested
    srtStale,         \* frames requested by scroll effects since cleaned up
    srtAnim,          \* animate has a frame requested (animationId)
    srtElapsed,       \* timestamp - startTime, Off while startTime is undefined
    \* the display frame
    scrollsThisFrame, \* scroll notifications since the frame began
    passes,           \* measure-and-apply passes they caused, per region
    lateUpdates,      \* observation: a frame callback of a cleaned-up effect
                      \* called setProgress
    \* VariantsSpaceSection
    innerWidth, innerHeight,   \* window.innerWidth / window.innerHeight now
    cardCount,        \* prop: term.cards.length (0 when term.cards is missing)
    scrollDistance, gapWidth,  \* useState
    renderWidth, renderHeight, \* the window size read by the last render
    measureRaf,       \* the measure effect has a frame requested
    progressV,        \* the last value of scrollYProgress
    titleInfluence,   \* scrollInfluenceRef.current
    titleOpacity,     \* titlePatternRef.current.style.opacity
    titleX,           \* titlePatternRef.current.style.transform, translateX px
    firstCardInfluence,        \* firstCardInfluenceRef.current
    firstCardOpacity, \* firstCardVisualRef.current.style.opacity
    firstCardY,       \* firstCardContainerRef.current.style.transform, px
    titlePhase, titleT,        \* observation: the branch of the title sphere
                               \* taken by the last change, and its t
    slidePhase, slideT,        \* observation: the same for the first card
    \* ScrambleText
    scMounted,
    scInitial,        \* prop isInitialScramble
    scText,           \* prop text
    displayText,      \* useState
    isAnimating,      \* useState
    prevText,         \* prevTextRef.current
    scLoops,          \* per runScramble call site, the elapsed time of the loop
                      \* whose animate has a frame requested (Off: none,
                      \* Fresh: requested, animate has not run yet)
    frameRef,         \* the loop whose frame request frameRef.current holds
    scHasCleanup,     \* the last run of the text effect returned a cleanup
    scLate,           \* observation: animate ran after unmount
    \* TermsDetailModal in MagazinePage
    mdMounted,
    selectedTerm,     \* MagazinePage useState, 0 for null
    mdRenders,        \* renders of MagazinePage, the identity of onClose
    bodyOverflow,     \* document.body.style.overflow
    overflowBefore,   \* observation: the body overflow at mount
    keyListeners,     \* keydown listeners on document, by captured onClose
    mdEffect,         \* the closure of the effect's cleanup, or NoEffect
    mdOpened          \* observation: the modal has been open

articleVars == <<mounted, title, bodyBlocks, observing, isVisible, isLineDone,
                 visibleBlocks, isNextVisible, timers>>
histVars == <<sinceReveal, everScheduled, readySets, cancelled>>
geometry == <<top, height, vh, vw>>
lhVars == <<lhMounted, lhObserving, lhVisible, lhLineDone, lhTimer, lhCancelled>>
stickyOut == <<fadeStart, stickyProgress, stickyOpacity>>
lightVars == <<lightProgress, lightScale, pulseState, lightOpacity>>
termVars == <<termMotif, scrollInfluence>>
revealVars == <<srtMounted, srtAutoReveal, srtDuration, srtProgress, srtObserving,
                srtTicking, srtRaf, srtStale, srtAnim, srtElapsed>>
frameVars == <<scrollsThisFrame, passes, lateUpdates>>
variantVars == <<innerWidth, innerHeight, cardCount, scrollDistance, gapWidth,
                 renderWidth, renderHeight, measureRaf, progressV, titleInfluence,
                 titleOpacity, titleX, firstCardInfluence, firstCardOpacity,
                 firstCardY, titlePhase, titleT, slidePhase, slideT>>
scrambleVars == <<scMounted, scInitial, scText, displayText, isAnimating, prevText,
                  scLoops, frameRef, scHasCleanup, scLate>>
modalVars == <<mdMounted, selectedTerm, mdRenders, bodyOverflow, overflowBefore,
               keyListeners, mdEffect, mdOpened>>
widgetVars == <<scrambleVars, modalVars>>
scrollVars == <<geometry, lhVars, stickyOut, lightVars, termVars, revealVars, frameVars,
                variantVars, widgetVars>>
vars == <<articleVars, histVars, scrollVars>>

Min(a, b) == IF a < b THEN a ELSE b
Max(a, b) == IF a > b THEN a ELSE b

\* ------------------------------------------------------------------------
\* Inputs
\* ------------------------------------------------------------------------
Whitespace == {" "}
Titles == { <<>>, <<"a", "b">>, <<"c", " ", "d", "e">> }
BlockLists ==
    { <<>>,
      << [delay |-> 0], [isHighlight |-> TRUE], [delay |-> 0] >>,
      << [delay |-> 0], [delay |-> 2000], [delay |-> 1500] >> }

\* ------------------------------------------------------------------------
\* ArticleSection: derived values
\* ------------------------------------------------------------------------
Off == 0 - 1
TimerKinds == {"line", "first", "next", "ready"}

\* title.replace(/\s/g, '').length
RECURSIVE CharCount(_)
CharCount(t) ==
    IF t = <<>> THEN 0
    ELSE (IF Head(t) \in Whitespace THEN 0 ELSE 1) + CharCount(Tail(t))

\* (a variant without the 1200 ms that let the last character settle)
RevealDurationNoSettle(t) == RevealInitialDelay + CharCount(t) * RevealStagger

\* 200 + charCount * 60 + 1200
RevealDuration(t) == RevealInitialDelay + CharCount(t) * RevealStagger + RevealSettle

\* nextBlock.delay || 1000 : a missing delay and the delay 0 are both falsy
DelayMs(block) ==
    IF "delay" \in DOMAIN block /\ block.delay # 0 THEN block.delay
    ELSE DefaultBlockDelay

\* bodyBlocks.length === 0 || visibleBlocks >= bodyBlocks.length
IsFullyRevealed(blocks, vb) == Len(blocks) = 0 \/ vb >= Len(blocks)

\* The body of each effect: the delay of the timer it sets, or Off when its
\* guard returns early.  s is the rendered state and props.
\* (a variant timed to the end of the 1 s width transition of the line)
LineEffectAtTransitionEnd(s) == IF ~s.isVisible THEN Off ELSE 1000

LineEffect(s) == IF ~s.isVisible THEN Off ELSE LineDelay

\* (a variant that lacks the bodyBlocks.length === 0 guard)
FirstBlockEffectNoLengthGuard(s) ==
    IF ~s.isLineDone \/ s.title = <<>> THEN Off
    ELSE RevealDuration(s.title)

FirstBlockEffect(s) ==
    IF ~s.isLineDone \/ s.title = <<>> \/ Len(s.bodyBlocks) = 0 THEN Off
    ELSE RevealDuration(s.title)

NextBlockEffect(s) ==
    IF s.visibleBlocks = 0 \/ s.visibleBlocks >= Len(s.bodyBlocks) THEN Off
    ELSE DelayMs(s.bodyBlocks[s.visibleBlocks + 1])

NextVisibleEffect(s) ==
    IF ~IsFullyRevealed(s.bodyBlocks, s.visibleBlocks) \/ Len(s.bodyBlocks) = 0
    THEN Off
    ELSE NextVisibleDelay

EffectBody(k, s) ==
    CASE k = "line"  -> LineEffect(s)
      [] k = "first" -> FirstBlockEffect(s)
      [] k = "next"  -> NextBlockEffect(s)
      [] k = "ready" -> NextVisibleEffect(s)

\* Whether the dependency array of effect k differs between renders o and n;
\* newArray says that the bodyBlocks prop is a new array object.
DepsChanged(k, o, n, newArray) ==
    CASE k = "line"  -> o.isVisible # n.isVisible
      [] k = "first" -> \/ o.isLineDone # n.isLineDone
                        \/ o.title # n.title
                        \/ Len(o.bodyBlocks) # Len(n.bodyBlocks)
      [] k = "next"  -> o.visibleBlocks # n.visibleBlocks \/ newArray
      [] k = "ready" ->
            \/ IsFullyRevealed(o.bodyBlocks, o.visibleBlocks)
                 # IsFullyRevealed(n.bodyBlocks, n.visibleBlocks)
            \/ Len(o.bodyBlocks) # Len(n.bodyBlocks)

Rendered ==
    [isVisible |-> isVisible, isLineDone |-> isLineDone,
     visibleBlocks |-> visibleBlocks, title |-> title, bodyBlocks |-> bodyBlocks]

\* A commit from render o to render n: every effect whose dependencies changed
\* runs its cleanup (clearTimeout) and then its body again.
Commit(tm, o, n, newArray) ==
    [k \in TimerKinds |->
        IF DepsChanged(k, o, n, newArray) THEN EffectBody(k, n) ELSE tm[k]]

Scheduled(tm, o, n, newArray) ==
    {k \in TimerKinds : DepsChanged(k, o, n, newArray) /\ EffectBody(k, n) # Off}

\* (a variant whose first-block effect returns no cleanup)
UnmountTimersFirstLeft(tm) == [k \in TimerKinds |-> IF k = "first" THEN tm[k] ELSE Off]

\* The unmount runs the cleanup of every effect.
UnmountTimers(tm) == [k \in TimerKinds |-> Off]

\* ------------------------------------------------------------------------
\* ArticleSection: actions
\* ------------------------------------------------------------------------
\* A state or prop update followed by the re-render and the commit of its
\* effects; fired is the timer whose callback made the update, or "none".
Update(n, newArray, fired) ==
    /\ isVisible' = n.isVisible
    /\ isLineDone' = n.isLineDone
    /\ visibleBlocks' = n.visibleBlocks
    /\ title' = n.title
    /\ bodyBlocks' = n.bodyBlocks
    /\ LET tm == IF fired = "none" THEN timers ELSE [timers EXCEPT ![fired] = Off]
       IN  timers' = Commit(tm, Rendered, n, newArray)
    /\ everScheduled' = everScheduled \cup Scheduled(timers, Rendered, n, newArray)

\* The IntersectionObserver callback (threshold 0.3).
Intersect(isIntersecting) ==
    /\ mounted /\ observing
    /\ IF isIntersecting
       THEN /\ observing' = FALSE
            /\ Update([Rendered EXCEPT !.isVisible = TRUE], FALSE, "none")
       ELSE UNCHANGED <<observing, isVisible, isLineDone, visibleBlocks, title,
                        bodyBlocks, timers, everScheduled>>
    /\ sinceReveal' = IF isIntersecting THEN 0 ELSE sinceReveal
    /\ UNCHANGED <<mounted, isNextVisible, scrollVars, readySets, cancelled>>

\* setTimeout(() => setIsLineDone(true), 1200)
FireLine ==
    /\ timers["line"] = 0
    /\ Update([Rendered EXCEPT !.isLineDone = TRUE], FALSE, "line")
    /\ sinceReveal' = 0
    /\ UNCHANGED <<mounted, observing, isNextVisible, scrollVars, readySets, cancelled>>

\* setTimeout(() => setVisibleBlocks(1), revealDuration)
FireFirst ==
    /\ timers["first"] = 0
    /\ Update([Rendered EXCEPT !.visibleBlocks = 1], FALSE, "first")
    /\ sinceReveal' = IF visibleBlocks = 1 THEN sinceReveal ELSE 0
    /\ UNCHANGED <<mounted, observing, isNextVisible, scrollVars, readySets, cancelled>>

\* setTimeout(() => setVisibleBlocks((prev) => prev + 1), delayMs)
FireNext ==
    /\ timers["next"] = 0
    /\ Update([Rendered EXCEPT !.visibleBlocks = visibleBlocks + 1], FALSE, "next")
    /\ sinceReveal' = 0
    /\ UNCHANGED <<mounted, observing, isNextVisible, scrollVars, readySets, cancelled>>

\* setTimeout(() => setIsNextVisible(true), 2000)
FireReady ==
    /\ timers["ready"] = 0
    /\ isNextVisible' = TRUE
    /\ timers' = [timers EXCEPT !["ready"] = Off]
    /\ readySets' = Min(readySets + 1, MaxReadySets)
    /\ UNCHANGED <<mounted, title, bodyBlocks, observing, isVisible, isLineDone,
                   visibleBlocks, scrollVars, sinceReveal, everScheduled, cancelled>>

\* The parent renders again: the title prop may differ, and bodyBlocks may be
\* a new array object with the same blocks (an inline array literal).
Rerender(newTitle, newArray) ==
    /\ mounted
    /\ Update([Rendered EXCEPT !.title = newTitle], newArray, "none")
    /\ UNCHANGED <<mounted, observing, isNextVisible, scrollVars, sinceReveal,
                   readySets, cancelled>>

\* The component is torn down: observer.disconnect() and every clearTimeout.
Unmount ==
    /\ mounted
    /\ mounted' = FALSE
    /\ observing' = FALSE
    /\ timers' = UnmountTimers(timers)
    /\ cancelled' = {k \in TimerKinds : timers[k] # Off}
    /\ UNCHANGED <<title, bodyBlocks, isVisible, isLineDone, visibleBlocks,
                   isNextVisible, scrollVars, sinceReveal, everScheduled, readySets>>

\* ------------------------------------------------------------------------
\* JavaScript numbers
\* ------------------------------------------------------------------------
\* A number is a fraction n/d in lowest terms with d >= 0.  d = 0 holds the
\* values that are not finite: 1/0 is Infinity, -1/0 is -Infinity and 0/0 is
\* NaN.  Rounding of the binary representation is not modelled: it is
\* monotone and keeps 0 and 1, the values the range claims are about.
Abs(i) == IF i < 0 THEN 0 - i ELSE i
Sign(i) == IF i < 0 THEN 0 - 1 ELSE IF i > 0 THEN 1 ELSE 0

RECURSIVE GCD(_, _)
GCD(a, b) == IF b = 0 THEN a ELSE GCD(b, a % b)

Norm(n, d) ==
    IF d = 0 THEN [n |-> Sign(n), d |-> 0]
    ELSE LET g == GCD(Abs(n), Abs(d))
         IN  [n |-> (Sign(d) * n) \div g, d |-> Abs(d) \div g]

Num(i) == [n |-> i, d |-> 1]
Frac(n, d) == Norm(n, d)
NaN == [n |-> 0, d |-> 0]
IsNaN(x) == x.n = 0 /\ x.d = 0
IsFinite(x) == x.d > 0

JsAdd(a, b) == Norm(a.n * b.d + b.n * a.d, a.d * b.d)
JsSub(a, b) == Norm(a.n * b.d - b.n * a.d, a.d * b.d)
JsMul(a, b) == Norm(a.n * b.n, a.d * b.d)
\* a / b: x/0 is +-Infinity or, for 0/0, NaN
JsDiv(a, b) == Norm(a.n * b.d, a.d * b.n)
\* a < b: false when either is NaN
JsLess(a, b) == a.n * b.d < b.n * a.d
\* Math.min / Math.max: NaN when either argument is NaN
MathMin(a, b) == IF IsNaN(a) \/ IsNaN(b) THEN NaN ELSE IF JsLess(b, a) THEN b ELSE a
MathMax(a, b) == IF IsNaN(a) \/ IsNaN(b) THEN NaN ELSE IF JsLess(a, b) THEN b ELSE a

InUnitRange(x) == IsFinite(x) /\ 0 <= x.n /\ x.n <= x.d

\* ------------------------------------------------------------------------
\* Scroll handlers: the values each computes from one measurement
\* ------------------------------------------------------------------------
\* (a variant that divides by the region height)
DistanceProgressOverHeight(t, h, v) ==
    MathMax(Num(0), MathMin(Num(1), JsDiv(Num(0 - t), Num(h))))

\* Math.max(0, Math.min(1, scrolled / scrollableDistance)) with
\* scrollableDistance = rect.height - window.innerHeight, scrolled = -rect.top
DistanceProgress(t, h, v) ==
    LET scrollableDistance == Num(h - v)
        scrolled == Num(0 - t)
    IN  MathMax(Num(0), MathMin(Num(1), JsDiv(scrolled, scrollableDistance)))

\* useStickyFadeOut.handleScroll
StickyProgress(t, h, v) == DistanceProgress(t, h, v)

\* Math.max(0, 1 - Math.max(0, (progress - fadeStart) / (1 - fadeStart)))
StickyOpacity(progress, fs) ==
    MathMax(Num(0),
            JsSub(Num(1),
                  MathMax(Num(0), JsDiv(JsSub(progress, fs), JsSub(Num(1), fs)))))

\* LightMetaphorSection.handleScroll
LightProgress(t, h, v) == DistanceProgress(t, h, v)

\* (a variant whose growProgress is not capped at 1)
LightScaleUncapped(progress, w, v) ==
    LET targetScale == JsDiv(JsMul(MathMin(Num(w), Num(v)), Frac(6, 10)), Num(16))
    IN  JsAdd(Num(1), JsMul(JsSub(targetScale, Num(1)), JsDiv(progress, Frac(5, 10))))

LightScale(progress, w, v) ==
    LET initialSize == Num(16)
        maxSize == JsMul(MathMin(Num(w), Num(v)), Frac(6, 10))
        targetScale == JsDiv(maxSize, initialSize)
        growProgress == MathMin(Num(1), JsDiv(progress, Frac(5, 10)))
    IN  JsAdd(Num(1), JsMul(JsSub(targetScale, Num(1)), growProgress))

LightPulseState(progress) ==
    IF JsLess(progress, Frac(1, 10)) THEN "running" ELSE "paused"

LightOpacity(progress) ==
    IF JsLess(Frac(6, 10), progress)
    THEN JsSub(Num(1), JsDiv(JsSub(progress, Frac(6, 10)), Frac(4, 10)))
    ELSE Num(1)

\* (a variant that does not square enterProgress)
TermInfluenceLinear(t, h, v) ==
    LET distFromCenter == JsSub(JsDiv(Num(t + t + h), Num(2)), JsDiv(Num(v), Num(2)))
    IN  IF JsLess(Num(0), distFromCenter)
        THEN MathMax(Num(0),
                     JsSub(Num(1), JsDiv(distFromCenter, JsMul(Num(v), Frac(5, 10)))))
        ELSE Num(1)

\* TermFullscreenSection.handleScroll
TermInfluence(t, h, v) ==
    LET bottom == t + h
        sectionCenter == JsDiv(Num(t + bottom), Num(2))
        viewportCenter == JsDiv(Num(v), Num(2))
        distFromCenter == JsSub(sectionCenter, viewportCenter)
        enterProgress ==
            MathMax(Num(0),
                    JsSub(Num(1), JsDiv(distFromCenter, JsMul(Num(v), Frac(5, 10)))))
    IN  IF JsLess(Num(0), distFromCenter)
        THEN JsMul(enterProgress, enterProgress)
        ELSE Num(1)

\* (a variant whose range ends when the region's top reaches the viewport top)
RevealProgressToTop(t, h, v) ==
    LET start == JsMul(Num(v), Frac(8, 10))
    IN  MathMax(Num(0), MathMin(Num(1), JsDiv(JsSub(start, Num(t)), start)))

\* ScrollRevealText.updateProgress
RevealProgress(t, h, v) ==
    LET start == JsMul(Num(v), Frac(8, 10))
        end == JsMul(Num(0 - h), Frac(3, 10))
        current == Num(t)
        newProgress == JsDiv(JsSub(start, current), JsSub(start, end))
    IN  MathMax(Num(0), MathMin(Num(1), newProgress))

\* ScrollRevealText.animate: Math.min(1, elapsed / autoRevealDuration)
AnimateProgress(elapsed, duration) ==
    MathMin(Num(1), JsDiv(Num(elapsed), Num(duration)))

\* ------------------------------------------------------------------------
\* Scroll-driven regions: inputs
\* ------------------------------------------------------------------------
Tops == {0 - 1200, 0 - 600, 0, 400, 640}
Heights == {0, 400, 800, 2000}
ViewportHeights == {400, 800}
ViewportWidths == {600}
FadeStarts == {Frac(3, 10)}
Motifs == {"grid", "ripple"}
Durations == {0, 1500}
Regions == {"sticky", "light", "term", "reveal"}

\* ------------------------------------------------------------------------
\* LeadHeadlineSection: useStickyFadeOut, the observer and the line timer.
\* Time is not measured here: a pending timer fires at some later step.
\* ------------------------------------------------------------------------
LhLineEffect(v) == IF ~v THEN Off ELSE LineDelay

\* (a variant without the cleanup)
LhUnmountTimerLeft(t) == t

\* The unmount runs clearTimeout(timer).
LhUnmountTimer(t) == Off

\* useStickyFadeOut.handleScroll at top offset t
StickyHandle(t) ==
    LET progress == StickyProgress(t, height, vh)
    IN  /\ stickyProgress' = progress
        /\ stickyOpacity' = StickyOpacity(progress, fadeStart)

\* LightMetaphorSection.handleScroll at top offset t
LightHandle(t) ==
    LET progress == LightProgress(t, height, vh)
    IN  /\ lightProgress' = progress
        /\ lightScale' = LightScale(progress, vw, vh)
        /\ pulseState' = LightPulseState(progress)
        /\ lightOpacity' = LightOpacity(progress)

\* TermFullscreenSection.handleScroll at top offset t
TermHandle(t) == scrollInfluence' = TermInfluence(t, height, vh)

LhIntersect(isIntersecting) ==
    /\ lhMounted /\ lhObserving
    /\ IF isIntersecting
       THEN /\ lhVisible' = TRUE
            /\ lhObserving' = FALSE
            /\ lhTimer' = LhLineEffect(TRUE)
       ELSE UNCHANGED <<lhVisible, lhObserving, lhTimer>>
    /\ UNCHANGED <<lhMounted, lhLineDone, lhCancelled, geometry, stickyOut,
                   lightVars, termVars, revealVars, frameVars, articleVars, histVars, variantVars,
                   widgetVars>>

\* setTimeout(() => setIsLineDone(true), 1200)
LhFireLine ==
    /\ lhTimer # Off
    /\ lhLineDone' = TRUE
    /\ lhTimer' = Off
    /\ UNCHANGED <<lhMounted, lhObserving, lhVisible, lhCancelled, geometry,
                   stickyOut, lightVars, termVars, revealVars, frameVars, articleVars,
                   histVars, variantVars,
                   widgetVars>>

\* Teardown: the scroll listener is removed, the observer disconnected and the
\* line timer cleared.
LhUnmount ==
    /\ lhMounted
    /\ lhMounted' = FALSE
    /\ lhObserving' = FALSE
    /\ lhTimer' = LhUnmountTimer(lhTimer)
    /\ lhCancelled' = (lhTimer # Off)
    /\ UNCHANGED <<lhVisible, lhLineDone, geometry, stickyOut, lightVars, termVars,
                   revealVars, frameVars, articleVars, histVars, variantVars,
                   widgetVars>>

\* ------------------------------------------------------------------------
\* ScrollRevealText
\* ------------------------------------------------------------------------
\* The cleanup of the scroll effect: removeEventListener only.  A frame the
\* effect requested stays requested; it is counted in srtStale.
ScrollCleanupStale(stale, raf) == stale + (IF raf THEN 1 ELSE 0)

\* The cleanup of the autoReveal effect: cancelAnimationFrame(animationId).
AnimCleanup(anim) == FALSE

\* The effects of ScrollRevealText run for the props (auto, dur): the
\* autoReveal effect observes the container; the scroll effect calls
\* updateProgress() once and listens.
SrtSetup(auto, dur) ==
    /\ srtAutoReveal' = auto
    /\ srtDuration' = dur
    /\ srtObserving' = auto
    /\ srtTicking' = FALSE
    /\ srtRaf' = FALSE
    /\ srtAnim' = AnimCleanup(srtAnim)
    /\ srtElapsed' = Off
    /\ srtStale' = IF srtAutoReveal THEN srtStale ELSE ScrollCleanupStale(srtStale, srtRaf)

\* A prop change re-runs the effects whose dependencies changed:
\* [autoReveal, autoRevealDuration] and [autoReveal].
SrtProps(auto, dur) ==
    /\ srtMounted
    /\ auto # srtAutoReveal \/ dur # srtDuration
    /\ srtStale < MaxStale
    /\ IF auto # srtAutoReveal
       THEN /\ SrtSetup(auto, dur)
            /\ IF auto
               THEN UNCHANGED srtProgress
               ELSE srtProgress' = RevealProgress(top, height, vh)   \* updateProgress()
       ELSE \* only the duration changed: the autoReveal effect alone re-runs
            /\ srtDuration' = dur
            /\ IF srtAutoReveal
               THEN /\ srtObserving' = TRUE
                    /\ srtAnim' = AnimCleanup(srtAnim)
                    /\ srtElapsed' = Off
               ELSE UNCHANGED <<srtObserving, srtAnim, srtElapsed>>
            /\ UNCHANGED <<srtAutoReveal, srtTicking, srtRaf, srtStale, srtProgress>>
    /\ UNCHANGED <<srtMounted, frameVars, geometry, lhVars,
                   stickyOut, lightVars, termVars, articleVars, histVars, variantVars,
                   widgetVars>>

\* The IntersectionObserver callback of the autoReveal effect (threshold 0.1).
SrtIntersect(isIntersecting) ==
    /\ srtMounted /\ srtObserving
    /\ IF isIntersecting
       THEN /\ srtElapsed' = Off          \* startTime = undefined
            /\ srtAnim' = TRUE            \* requestAnimationFrame(animate)
            /\ srtObserving' = FALSE      \* observer.disconnect()
       ELSE UNCHANGED <<srtElapsed, srtAnim, srtObserving>>
    /\ UNCHANGED <<srtMounted, srtAutoReveal, srtDuration, srtProgress, srtTicking,
                   srtRaf, srtStale, frameVars, geometry, lhVars, stickyOut,
                   lightVars, termVars, articleVars, histVars, variantVars,
                   widgetVars>>

SrtUnmount ==
    /\ srtMounted
    /\ srtMounted' = FALSE
    /\ srtObserving' = FALSE
    /\ srtAnim' = AnimCleanup(srtAnim)
    /\ srtStale' = IF srtAutoReveal THEN srtStale ELSE ScrollCleanupStale(srtStale, srtRaf)
    /\ srtRaf' = FALSE
    /\ UNCHANGED <<srtAutoReveal, srtDuration, srtProgress, srtTicking, srtElapsed,
                   frameVars, geometry, lhVars, stickyOut, lightVars, termVars,
                   articleVars, histVars, variantVars,
                   widgetVars>>

\* ------------------------------------------------------------------------
\* ScrollRevealText: the render of the characters
\* ------------------------------------------------------------------------
Texts ==
    { <<"a", "b", ".", " ", "c">>,
      <<"a", ".", " ", "b", "c", ".", " ", "d", ".">> }

\* text.split('. ')
RECURSIVE SplitFrom(_, _)
SplitFrom(rest, cur) ==
    IF rest = <<>> THEN <<cur>>
    ELSE IF Len(rest) >= 2 /\ rest[1] = "." /\ rest[2] = " "
         THEN <<cur>> \o SplitFrom(SubSeq(rest, 3, Len(rest)), <<>>)
         ELSE SplitFrom(Tail(rest), Append(cur, Head(rest)))

\* .map((s, i, arr) => i < arr.length - 1 ? s + '.' : s)
Sentences(text) ==
    LET arr == SplitFrom(text, <<>>)
    IN  [i \in 1..Len(arr) |-> IF i < Len(arr) THEN Append(arr[i], ".") ELSE arr[i]]

\* sentences.reduce((sum, s) => sum + s.length, 0)
RECURSIVE SumLengths(_)
SumLengths(ss) == IF ss = <<>> THEN 0 ELSE Len(Head(ss)) + SumLengths(Tail(ss))

TotalChars(text) == SumLengths(Sentences(text))

\* Math.floor: NaN and the infinities are returned as they are
MathFloor(x) == IF IsFinite(x) THEN Num(x.n \div x.d) ELSE x

\* (a variant that rounds up)
RevealedCountCeil(text, progress) ==
    LET x == JsMul(Num(TotalChars(text)), progress)
    IN  IF IsFinite(x) THEN Num(0 - ((0 - x.n) \div x.d)) ELSE x

\* Math.floor(totalChars * progress)
RevealedCount(text, progress) == MathFloor(JsMul(Num(TotalChars(text)), progress))

\* isRevealed of each character in reading order: charCounter < revealedCount,
\* charCounter running over the sentences from 0
RevealedChars(text, progress) ==
    LET revealedCount == RevealedCount(text, progress)
        totalChars == TotalChars(text)
    IN  [k \in 1..totalChars |-> JsLess(Num(k - 1), revealedCount)]

\* ------------------------------------------------------------------------
\* The scroll event and the display frame
\* ------------------------------------------------------------------------
\* The page scrolls to top offset t and the scroll event is dispatched to the
\* listeners of the three sections; each runs its handleScroll at once.
ScrollEvent(t) ==
    /\ scrollsThisFrame < MaxScrollsPerFrame
    /\ scrollsThisFrame' = scrollsThisFrame + 1
    /\ top' = t
    /\ IF lhMounted THEN StickyHandle(t) ELSE UNCHANGED <<stickyProgress, stickyOpacity>>
    /\ LightHandle(t)
    /\ IF termMotif = "grid" THEN TermHandle(t) ELSE UNCHANGED scrollInfluence
    /\ passes' = [r \in Regions |->
                    passes[r] + (CASE r = "sticky" -> IF lhMounted THEN 1 ELSE 0
                                   [] r = "light"  -> 1
                                   [] r = "term"   -> IF termMotif = "grid" THEN 1 ELSE 0
                                   [] r = "reveal" -> 0)]
    /\ UNCHANGED <<height, vh, vw, fadeStart, termMotif, lhVars, revealVars,
                   lateUpdates, articleVars, histVars, variantVars,
                   widgetVars>>

\* The next display frame begins; the three sections request no frames.
FrameTick ==
    /\ scrollsThisFrame' = 0
    /\ passes' = [r \in Regions |-> 0]
    /\ UNCHANGED <<geometry, lhVars, stickyOut, lightVars, termVars, revealVars,
                   lateUpdates, articleVars, histVars, variantVars,
                   widgetVars>>

\* The page scrolls to top offset t and the scroll event is dispatched to
\* ScrollRevealText.onScroll, if the scroll effect is listening.
SrtScroll(t) ==
    /\ scrollsThisFrame < MaxScrollsPerFrame
    /\ scrollsThisFrame' = scrollsThisFrame + 1
    /\ top' = t
    /\ LET listening == srtMounted /\ ~srtAutoReveal
           request == listening /\ ~srtTicking
       IN  /\ srtTicking' = (srtTicking \/ request)
           /\ srtRaf' = (srtRaf \/ request)
    /\ UNCHANGED <<height, vh, vw, srtMounted, srtAutoReveal, srtDuration,
                   srtProgress, srtObserving, srtStale, srtAnim, srtElapsed, passes,
                   lateUpdates, lhVars, stickyOut, lightVars, termVars, articleVars,
                   histVars, variantVars,
                   widgetVars>>

\* The frame callbacks a display frame runs, in the order they were requested:
\* updateProgress of cleaned-up effects, updateProgress of the current scroll
\* effect, animate of the autoReveal effect.
FrameMeasures == IF srtMounted THEN srtStale + (IF srtRaf THEN 1 ELSE 0) ELSE 0

Frame ==
    /\ scrollsThisFrame' = 0
    /\ passes' = [r \in Regions |-> IF r = "reveal" THEN FrameMeasures ELSE 0]
    /\ srtStale' = 0
    /\ srtRaf' = FALSE
       \* updateProgress returns before "ticking = false" when the ref is null
    /\ srtTicking' = IF srtRaf /\ srtMounted THEN FALSE ELSE srtTicking
    /\ lateUpdates' = (lateUpdates \/ (srtMounted /\ srtStale > 0))
    /\ IF srtAnim
       THEN LET elapsed == IF srtElapsed = Off THEN 0 ELSE srtElapsed + FrameMs
                newProgress == AnimateProgress(elapsed, srtDuration)
            IN  /\ srtElapsed' = elapsed
                /\ srtProgress' = newProgress
                /\ srtAnim' = JsLess(newProgress, Num(1))
       ELSE /\ srtProgress' = IF FrameMeasures > 0
                              THEN RevealProgress(top, height, vh) ELSE srtProgress
            /\ UNCHANGED <<srtAnim, srtElapsed>>
    /\ UNCHANGED <<geometry, lhVars, stickyOut, lightVars, termVars, srtMounted,
                   srtAutoReveal, srtDuration, srtObserving, articleVars, histVars, variantVars,
                   widgetVars>>

\* ------------------------------------------------------------------------
\* VariantsSpaceSection: layout constants and phase boundaries of a render
\* ------------------------------------------------------------------------
\* a <= b: false when either is NaN
JsLessEq(a, b) == ~IsNaN(a) /\ ~IsNaN(b) /\ (a = b \/ JsLess(a, b))

\* window.innerWidth * 0.3
GapWidthOf(w) == JsMul(Num(w), Frac(3, 10))

\* window.innerWidth >= 900 ? 480 : window.innerWidth - 48
CardWidthOf(w) == IF w >= 900 THEN Num(480) ELSE Num(w - 48)

\* trackRef.current.scrollWidth: the title slide (100vw), the gap spacer of
\* the last render and the cards (480px, or 100vw - 48px below 900px)
TrackWidth(w, gap, n) == JsAdd(JsAdd(Num(w), gap), JsMul(Num(n), CardWidthOf(w)))

\* Math.max(0, trackWidth - window.innerWidth)
Measured(w, gap, n) == MathMax(Num(0), JsSub(TrackWidth(w, gap, n), Num(w)))

ConvergenceRatioOf(ch, sd) ==
    LET totalScrollable == JsAdd(ch, sd)
    IN  IF JsLess(Num(0), totalScrollable) THEN JsDiv(ch, totalScrollable) ELSE Num(0)

CardEnterRatioOf(ch, sd, gap) ==
    LET conv == ConvergenceRatioOf(ch, sd)
    IN  IF JsLess(Num(0), sd)
        THEN JsAdd(conv, JsMul(JsDiv(gap, sd), JsSub(Num(1), conv)))
        ELSE conv

CardFullRatioOf(ch, sd, gap, cw) ==
    LET conv == ConvergenceRatioOf(ch, sd)
    IN  IF JsLess(Num(0), sd)
        THEN JsAdd(conv, JsMul(JsDiv(JsAdd(gap, cw), sd), JsSub(Num(1), conv)))
        ELSE conv

Card10RatioOf(ch, sd, gap, cw) ==
    LET enter == CardEnterRatioOf(ch, sd, gap)
        full == CardFullRatioOf(ch, sd, gap, cw)
    IN  JsAdd(enter, JsMul(JsSub(full, enter), Frac(1, 10)))

SlideUpEndRatioOf(ch, sd, gap, cw) ==
    LET c10 == Card10RatioOf(ch, sd, gap, cw)
    IN  MathMin(Num(1), JsAdd(c10, JsMul(JsSub(Num(1), c10), Frac(15, 100))))

\* The constants of the last render: the closure the change handler runs in.
convergenceHeight == Num(renderHeight)
cardWidth == CardWidthOf(renderWidth)
containerHeight == JsAdd(JsAdd(convergenceHeight, Num(renderHeight)), scrollDistance)
convergenceRatio == ConvergenceRatioOf(convergenceHeight, scrollDistance)
cardEnterRatio == CardEnterRatioOf(convergenceHeight, scrollDistance, gapWidth)
card10Ratio == Card10RatioOf(convergenceHeight, scrollDistance, gapWidth, cardWidth)
slideUpEndRatio == SlideUpEndRatioOf(convergenceHeight, scrollDistance, gapWidth, cardWidth)
cardAlignOffset == JsMul(Num(renderHeight), Frac(24, 100))

\* ------------------------------------------------------------------------
\* VariantsSpaceSection: the change handler of scrollYProgress
\* ------------------------------------------------------------------------
\* Title sphere: the branch taken for v, and the values of each branch.
TitlePhaseOf(v) ==
    IF JsLessEq(v, convergenceRatio) THEN 1
    ELSE IF JsLessEq(v, card10Ratio) THEN 2
    ELSE 3

\* convergenceRatio > 0 ? v / convergenceRatio : 0
ConvergeInfluence(v) ==
    IF JsLess(Num(0), convergenceRatio) THEN JsDiv(v, convergenceRatio) ELSE Num(0)

\* t = (v - convergenceRatio) / (card10Ratio - convergenceRatio)
ScatterT(v) == JsDiv(JsSub(v, convergenceRatio), JsSub(card10Ratio, convergenceRatio))

ScatterInfluence(t) == JsSub(Num(1), t)

\* window.innerWidth / 2 + gapWidth + cardWidth / 2
TargetX == JsAdd(JsAdd(JsDiv(Num(innerWidth), Num(2)), gapWidth), JsDiv(cardWidth, Num(2)))

ScatterX(t) == JsMul(t, TargetX)

\* t < 0.6 ? 1 : Math.max(0, 1 - (t - 0.6) / 0.4)
ScatterOpacity(t) ==
    IF JsLess(t, Frac(6, 10)) THEN Num(1)
    ELSE MathMax(Num(0), JsSub(Num(1), JsDiv(JsSub(t, Frac(6, 10)), Frac(4, 10))))

\* First card container: the branch taken for v, and the values of each.
SlidePhaseOf(v) ==
    IF JsLess(v, card10Ratio) THEN 1
    ELSE IF JsLess(v, slideUpEndRatio) THEN 2
    ELSE 3

\* t = (v - card10Ratio) / (slideUpEndRatio - card10Ratio)
SlideT(v) == JsDiv(JsSub(v, card10Ratio), JsSub(slideUpEndRatio, card10Ratio))

SlideY(t) == JsMul(cardAlignOffset, JsSub(Num(1), t))

\* v >= card10Ratio
CardEntered(v) == JsLessEq(card10Ratio, v)

\* The values of scrollYProgress tried: fixed points of [0,1] and every
\* boundary of the rendered phase table that lies in [0,1].
ProgressValues ==
    {Num(0), Frac(1, 2), Num(1)}
      \cup {b \in {convergenceRatio, cardEnterRatio, card10Ratio, slideUpEndRatio} :
                InUnitRange(b)}

\* useMotionValueEvent(scrollYProgress, 'change', (v) => ...)
ProgressChange(v) ==
    /\ v # progressV
    /\ progressV' = v
    /\ titlePhase' = TitlePhaseOf(v)
    /\ titleT' = CASE TitlePhaseOf(v) = 1 -> ConvergeInfluence(v)
                   [] TitlePhaseOf(v) = 2 -> ScatterT(v)
                   [] OTHER -> Num(0)
    /\ titleInfluence' = CASE TitlePhaseOf(v) = 1 -> ConvergeInfluence(v)
                           [] TitlePhaseOf(v) = 2 -> ScatterInfluence(ScatterT(v))
                           [] OTHER -> Num(0)
    /\ titleX' = CASE TitlePhaseOf(v) = 1 -> Num(0)
                   [] TitlePhaseOf(v) = 2 -> ScatterX(ScatterT(v))
                   [] OTHER -> titleX
    /\ titleOpacity' = CASE TitlePhaseOf(v) = 1 -> Num(1)
                         [] TitlePhaseOf(v) = 2 -> ScatterOpacity(ScatterT(v))
                         [] OTHER -> Num(0)
    /\ firstCardInfluence' = IF CardEntered(v) THEN Frac(15, 100) ELSE Num(0)
    /\ IF cardCount > 0       \* the refs of the first card are attached
       THEN /\ firstCardOpacity' = IF CardEntered(v) THEN Num(1) ELSE Num(0)
            /\ slidePhase' = SlidePhaseOf(v)
            /\ slideT' = IF SlidePhaseOf(v) = 2 THEN SlideT(v) ELSE Num(0)
            /\ firstCardY' = CASE SlidePhaseOf(v) = 1 -> cardAlignOffset
                               [] SlidePhaseOf(v) = 2 -> SlideY(SlideT(v))
                               [] OTHER -> Num(0)
       ELSE UNCHANGED <<firstCardOpacity, slidePhase, slideT, firstCardY>>
    /\ UNCHANGED <<innerWidth, innerHeight, cardCount, scrollDistance, gapWidth,
                   renderWidth, renderHeight, measureRaf>>
    /\ UNCHANGED <<articleVars, histVars, geometry, lhVars, stickyOut, lightVars,
                   termVars, revealVars, frameVars, widgetVars>>

\* ------------------------------------------------------------------------
\* VariantsSpaceSection: resize and measurement
\* ------------------------------------------------------------------------
WindowWidths == {600, 1000}
WindowHeights == {0, 800}
CardCounts == {0, 1, 2}

\* A render reads window.innerWidth / innerHeight at size (w, h); the measure
\* effect [cards, gapWidth] runs again when gapWidth changed, and on every
\* render when term.cards is missing (cards is then a new [] each render).
RenderAt(w, h, gapChanged) ==
    /\ renderWidth' = w
    /\ renderHeight' = h
    /\ measureRaf' = IF gapChanged \/ cardCount = 0 THEN TRUE ELSE measureRaf

\* The window is resized to (w, h): onResize sets gapWidth, measure sets
\* scrollDistance from the track as laid out with the gap of the last render;
\* the component renders again only if one of the two states changed.
Resize(w, h) ==
    /\ <<w, h>> # <<innerWidth, innerHeight>>
    /\ innerWidth' = w
    /\ innerHeight' = h
    /\ gapWidth' = GapWidthOf(w)
    /\ scrollDistance' = Measured(w, gapWidth, cardCount)
    /\ IF gapWidth' # gapWidth \/ scrollDistance' # scrollDistance
       THEN RenderAt(w, h, gapWidth' # gapWidth)
       ELSE UNCHANGED <<renderWidth, renderHeight, measureRaf>>
    /\ UNCHANGED <<cardCount, progressV, titleInfluence, titleOpacity, titleX,
                   firstCardInfluence, firstCardOpacity, firstCardY, titlePhase,
                   titleT, slidePhase, slideT>>
    /\ UNCHANGED <<articleVars, histVars, geometry, lhVars, stickyOut, lightVars,
                   termVars, revealVars, frameVars, widgetVars>>

\* The frame requested by the measure effect runs measure().
MeasureFrame ==
    /\ measureRaf
    /\ scrollDistance' = Measured(innerWidth, gapWidth, cardCount)
    /\ IF scrollDistance' # scrollDistance
       THEN /\ renderWidth' = innerWidth
            /\ renderHeight' = innerHeight
            /\ measureRaf' = (cardCount = 0)
       ELSE /\ measureRaf' = FALSE
            /\ UNCHANGED <<renderWidth, renderHeight>>
    /\ UNCHANGED <<innerWidth, innerHeight, cardCount, gapWidth, progressV,
                   titleInfluence, titleOpacity, titleX, firstCardInfluence,
                   firstCardOpacity, firstCardY, titlePhase, titleT, slidePhase,
                   slideT>>
    /\ UNCHANGED <<articleVars, histVars, geometry, lhVars, stickyOut, lightVars,
                   termVars, revealVars, frameVars, widgetVars>>

\* ------------------------------------------------------------------------
\* Initial states: every component is mounted and its effects have run once
\* ------------------------------------------------------------------------
\* ScrambleText
\* ------------------------------------------------------------------------
ScrambleDuration == 800
HoldDuration == 0

ScTexts == {"ab", "xyz", "q"}
LoopSites == {"mount", "text"}

\* What the span shows: the first `settled` characters of `target`, followed
\* by random characters of the charset up to the length of `target`.
Shown(t) == [target |-> t, settled |-> Len(t)]
Blank == [target |-> "", settled |-> 0]

\* progress = Math.min(Math.max(0, elapsed - holdDuration) / duration, 1);
\* settledCount = Math.floor(progress * targetText.length)
SettledCount(t, elapsed) ==
    IF Max(0, elapsed - HoldDuration) >= ScrambleDuration
    THEN Len(t)
    ELSE (Max(0, elapsed - HoldDuration) * Len(t)) \div ScrambleDuration

Idle == [live |-> FALSE, target |-> "", elapsed |-> Off]
Fresh(t) == [live |-> TRUE, target |-> t, elapsed |-> Off]

LiveLoops(loops) == {l \in LoopSites : loops[l].live}

\* cancelAnimationFrame(frameRef.current): frameRef holds 0 ("none") or the
\* id of the last frame requested; a frame that has run is not pending.
CancelFrame(loops, ref) ==
    [l \in LoopSites |-> IF l = ref THEN Idle ELSE loops[l]]

\* One call of animate for the loop of site l, on the component state st.
\* The first call sees the time since runScramble, taken as 0; later calls
\* are one frame apart.  After unmount the setState calls have no effect.
Animate(st, l) ==
    IF ~st.loops[l].live THEN st
    ELSE LET loop == st.loops[l]
             elapsed == IF loop.elapsed = Off THEN 0 ELSE loop.elapsed + FrameMs
             result == [target |-> loop.target,
                        settled |-> SettledCount(loop.target, elapsed)]
         IN  IF elapsed < HoldDuration + ScrambleDuration
             THEN [display |-> IF st.mounted THEN result ELSE st.display,
                   anim |-> st.anim,
                   prev |-> st.prev,
                   ref |-> l,
                   loops |-> [st.loops EXCEPT ![l].elapsed = elapsed],
                   mounted |-> st.mounted,
                   late |-> st.late \/ ~st.mounted]
             ELSE [display |-> IF st.mounted THEN Shown(loop.target) ELSE st.display,
                   anim |-> IF st.mounted THEN FALSE ELSE st.anim,
                   prev |-> loop.target,
                   ref |-> st.ref,
                   loops |-> [st.loops EXCEPT ![l] = Idle],
                   mounted |-> st.mounted,
                   late |-> st.late \/ ~st.mounted]

ScState == [display |-> displayText, anim |-> isAnimating, prev |-> prevText,
            ref |-> frameRef, loops |-> scLoops, mounted |-> scMounted,
            late |-> scLate]

\* A display frame: the requested animate callbacks run in the order of their
\* requests, the mount loop's before the text loop's.
ScFrame ==
    /\ LiveLoops(scLoops) # {}
    /\ LET st == Animate(Animate(ScState, "mount"), "text")
       IN  /\ displayText' = st.display
           /\ isAnimating' = st.anim
           /\ prevText' = st.prev
           /\ frameRef' = st.ref
           /\ scLoops' = st.loops
           /\ scLate' = st.late
    /\ UNCHANGED <<scMounted, scInitial, scText, scHasCleanup>>
    /\ UNCHANGED <<articleVars, histVars, geometry, lhVars, stickyOut, lightVars,
                   termVars, revealVars, frameVars, variantVars, modalVars>>

\* The parent renders with another text: the text effect's cleanup, if the
\* last run returned one, then its body.
ScSetText(t) ==
    /\ scMounted
    /\ t # scText
    /\ scText' = t
    /\ LET cleaned == IF scHasCleanup THEN CancelFrame(scLoops, frameRef)
                      ELSE scLoops
       IN  IF t = prevText
           THEN /\ scLoops' = cleaned
                /\ scHasCleanup' = FALSE
                /\ UNCHANGED <<isAnimating, frameRef>>
           ELSE /\ scLoops' = [cleaned EXCEPT !["text"] = Fresh(t)]
                /\ isAnimating' = TRUE
                /\ frameRef' = "text"
                /\ scHasCleanup' = TRUE
    /\ UNCHANGED <<scMounted, scInitial, displayText, prevText, scLate>>
    /\ UNCHANGED <<articleVars, histVars, geometry, lhVars, stickyOut, lightVars,
                   termVars, revealVars, frameVars, variantVars, modalVars>>

\* Unmount: the cleanups of the mount effect and of the text effect, each
\* cancelAnimationFrame(frameRef.current).
ScUnmount ==
    /\ scMounted
    /\ scMounted' = FALSE
    /\ scLoops' = IF scInitial \/ scHasCleanup THEN CancelFrame(scLoops, frameRef)
                  ELSE scLoops
    /\ scHasCleanup' = FALSE
    /\ UNCHANGED <<scInitial, scText, displayText, isAnimating, prevText, frameRef,
                   scLate>>
    /\ UNCHANGED <<articleVars, histVars, geometry, lhVars, stickyOut, lightVars,
                   termVars, revealVars, frameVars, variantVars, modalVars>>

\* After mount: the mount effect has started the initial scramble or the
\* third effect has set the text; the text effect returned early.
ScrambleInitWith(initial, t) ==
    /\ scMounted = TRUE
    /\ scInitial = initial
    /\ scText = t
    /\ displayText = IF initial THEN Blank ELSE Shown(t)
    /\ isAnimating = initial
    /\ prevText = t
    /\ scLoops = [l \in LoopSites |-> IF initial /\ l = "mount" THEN Fresh(t) ELSE Idle]
    /\ frameRef = IF initial THEN "mount" ELSE "none"
    /\ scHasCleanup = FALSE
    /\ scLate = FALSE

\* ------------------------------------------------------------------------
\* TermsDetailModal in MagazinePage
\* ------------------------------------------------------------------------
MaxRenders == 6
NoTerm == 0
MdTerms == {1, 2}
Overflows == {"", "auto", "scroll", "hidden"}

NoEffect == [on |-> FALSE, prevOverflow |-> "", onClose |-> 0]

\* isOpen={ Boolean(selectedTerm) }
IsOpen(term) == term # NoTerm

\* The cleanup returned by the effect, on the document.
MdCleanupLeavesListener(doc, eff) ==
    IF eff.on
    THEN [overflow |-> eff.prevOverflow, listeners |-> doc.listeners]
    ELSE doc

MdCleanup(doc, eff) ==
    IF eff.on
    THEN [overflow |-> eff.prevOverflow,
          listeners |-> doc.listeners \ {eff.onClose}]
    ELSE doc

\* The body of the effect for the render with the given isOpen and onClose.
MdEffectDoc(doc, open, onClose) ==
    IF open
    THEN [overflow |-> "hidden", listeners |-> doc.listeners \cup {onClose}]
    ELSE doc

MdEffectClosure(doc, open, onClose) ==
    IF open
    THEN [on |-> TRUE, prevOverflow |-> doc.overflow, onClose |-> onClose]
    ELSE NoEffect

\* MagazinePage renders with selectedTerm = term: onClose is a new function,
\* so the effect's dependencies changed and it runs again.
MdRender(term) ==
    LET doc == MdCleanup([overflow |-> bodyOverflow, listeners |-> keyListeners],
                         mdEffect)
        onClose == mdRenders + 1
    IN  /\ mdRenders < MaxRenders
        /\ selectedTerm' = term
        /\ mdRenders' = onClose
        /\ bodyOverflow' = MdEffectDoc(doc, IsOpen(term), onClose).overflow
        /\ keyListeners' = MdEffectDoc(doc, IsOpen(term), onClose).listeners
        /\ mdEffect' = MdEffectClosure(doc, IsOpen(term), onClose)
        /\ mdOpened' = (mdOpened \/ IsOpen(term))
        /\ UNCHANGED <<mdMounted, overflowBefore>>
        /\ UNCHANGED <<articleVars, histVars, geometry, lhVars, stickyOut, lightVars,
                       termVars, revealVars, frameVars, variantVars, scrambleVars>>

\* onDetailClick={ () => setSelectedTerm(term) }
MdDetailClick(t) ==
    /\ mdMounted
    /\ t # selectedTerm
    /\ MdRender(t)

\* onClose(): from a registered keydown handler on Escape, or from a click
\* on the backdrop of the open modal.  Closing a closed modal sets the same
\* state and renders nothing.
MdClose ==
    /\ mdMounted
    /\ keyListeners # {} \/ IsOpen(selectedTerm)
    /\ selectedTerm # NoTerm
    /\ MdRender(NoTerm)

\* The parent of MagazinePage renders again.
MdRerender ==
    /\ mdMounted
    /\ MdRender(selectedTerm)

MdUnmount ==
    /\ mdMounted
    /\ mdMounted' = FALSE
    /\ LET doc == MdCleanup([overflow |-> bodyOverflow, listeners |-> keyListeners],
                            mdEffect)
       IN  /\ bodyOverflow' = doc.overflow
           /\ keyListeners' = doc.listeners
    /\ mdEffect' = NoEffect
    /\ UNCHANGED <<selectedTerm, mdRenders, overflowBefore, mdOpened>>
    /\ UNCHANGED <<articleVars, histVars, geometry, lhVars, stickyOut, lightVars,
                   termVars, revealVars, frameVars, variantVars, scrambleVars>>

ModalInitWith(o) ==
    /\ mdMounted = TRUE
    /\ selectedTerm = NoTerm
    /\ mdRenders = 0
    /\ bodyOverflow = o
    /\ overflowBefore = o
    /\ keyListeners = {}
    /\ mdEffect = NoEffect
    /\ mdOpened = FALSE

\* Both components as the other specifications hold them.
WidgetsAtRest ==
    /\ ScrambleInitWith(FALSE, "ab")
    /\ ModalInitWith("")

\* ------------------------------------------------------------------------
ArticleInitWith(t, b) ==
    /\ mounted = TRUE
    /\ title = t
    /\ bodyBlocks = b
    /\ observing = TRUE
    /\ isVisible = FALSE /\ isLineDone = FALSE
    /\ visibleBlocks = 0 /\ isNextVisible = FALSE
    /\ timers = [k \in TimerKinds |-> Off]
    /\ sinceReveal = 0
    /\ everScheduled = {}
    /\ readySets = 0
    /\ cancelled = {}

ScrollInitWith(t, h, v, w, fs, motif, auto, dur) ==
    /\ top = t /\ height = h /\ vh = v /\ vw = w
    /\ lhMounted = TRUE /\ lhObserving = TRUE
    /\ lhVisible = FALSE /\ lhLineDone = FALSE /\ lhTimer = Off
    /\ lhCancelled = FALSE
    /\ fadeStart = fs
    /\ stickyProgress = StickyProgress(t, h, v)
    /\ stickyOpacity = StickyOpacity(StickyProgress(t, h, v), fs)
    /\ lightProgress = LightProgress(t, h, v)
    /\ lightScale = LightScale(LightProgress(t, h, v), w, v)
    /\ pulseState = LightPulseState(LightProgress(t, h, v))
    /\ lightOpacity = LightOpacity(LightProgress(t, h, v))
    /\ termMotif = motif
    /\ scrollInfluence = IF motif = "grid" THEN TermInfluence(t, h, v) ELSE Num(0)
    /\ srtMounted = TRUE
    /\ srtAutoReveal = auto
    /\ srtDuration = dur
    /\ srtProgress = IF auto THEN Num(0) ELSE RevealProgress(t, h, v)
    /\ srtObserving = auto
    /\ srtTicking = FALSE /\ srtRaf = FALSE /\ srtStale = 0
    /\ srtAnim = FALSE /\ srtElapsed = Off
    /\ scrollsThisFrame = 0
    /\ passes = [r \in Regions |-> 0]
    /\ lateUpdates = FALSE

\* VariantsSpaceSection after mount in a window of size (w, h) with n cards:
\* nothing is measured yet and the measure effect has requested its frame.
VariantInitWith(w, h, n) ==
    /\ innerWidth = w /\ innerHeight = h
    /\ cardCount = n
    /\ scrollDistance = Num(0)
    /\ gapWidth = GapWidthOf(w)
    /\ renderWidth = w /\ renderHeight = h
    /\ measureRaf = TRUE
    /\ progressV = Num(0)
    /\ titleInfluence = Num(0)
    /\ titleOpacity = Num(1)
    /\ titleX = Num(0)
    /\ firstCardInfluence = Num(0)
    /\ firstCardOpacity = Num(0)
    /\ firstCardY = Num(0)
    /\ titlePhase = 0 /\ titleT = Num(0)
    /\ slidePhase = 0 /\ slideT = Num(0)

\* ------------------------------------------------------------------------
\* Time
\* ------------------------------------------------------------------------
Armed == {timers[k] : k \in {j \in TimerKinds : timers[j] # Off}}

NextDeadline == CHOOSE d \in Armed : \A e \in Armed : d <= e

\* d ms pass and no timer is due before they have passed.
AdvanceBy(d) ==
    /\ Armed # {}
    /\ d > 0 /\ d <= NextDeadline
    /\ timers' = [k \in TimerKinds |-> IF timers[k] = Off THEN Off ELSE timers[k] - d]
    /\ sinceReveal' = Min(sinceReveal + d, ElapsedCap)
    /\ UNCHANGED <<mounted, title, bodyBlocks, observing, isVisible, isLineDone,
                   visibleBlocks, isNextVisible, everScheduled, readySets,
                   cancelled, scrollVars>>

Advance == \E d \in {AdvanceStep} \cup Armed : AdvanceBy(d)

\* ------------------------------------------------------------------------
\* Specification of the timed reveal
\* ------------------------------------------------------------------------
Init ==
    /\ \E t \in Titles, b \in BlockLists : ArticleInitWith(t, b)
    /\ ScrollInitWith(0, 2000, 800, 600, Frac(3, 10), "grid", FALSE, 1500)
    /\ VariantInitWith(1000, 800, 1)
    /\ WidgetsAtRest

Next ==
    \/ \E b \in BOOLEAN : Intersect(b)
    \/ FireLine
    \/ FireFirst
    \/ FireNext
    \/ FireReady
    \/ \E t \in Titles, a \in BOOLEAN : Rerender(t, a)
    \/ Unmount
    \/ Advance

Spec == Init /\ [][Next]_vars

\* ------------------------------------------------------------------------
\* Specification of the scroll-driven regions
\* ------------------------------------------------------------------------
ScrollInit ==
    /\ ArticleInitWith(<<>>, <<>>)
    /\ \E t \in Tops, h \in Heights, v \in ViewportHeights, w \in ViewportWidths,
          fs \in FadeStarts, motif \in Motifs :
            ScrollInitWith(t, h, v, w, fs, motif, FALSE, 1500)
    /\ VariantInitWith(1000, 800, 1)
    /\ WidgetsAtRest

ScrollNext ==
    \/ \E t \in Tops : ScrollEvent(t)
    \/ FrameTick
    \/ \E b \in BOOLEAN : LhIntersect(b)
    \/ LhFireLine
    \/ LhUnmount

ScrollSpec == ScrollInit /\ [][ScrollNext]_vars

\* ------------------------------------------------------------------------
\* Specification of ScrollRevealText
\* ------------------------------------------------------------------------
RevealInit ==
    /\ ArticleInitWith(<<>>, <<>>)
    /\ \E t \in Tops, h \in Heights, v \in ViewportHeights,
          auto \in BOOLEAN, dur \in Durations :
            ScrollInitWith(t, h, v, 600, Frac(3, 10), "ripple", auto, dur)
    /\ VariantInitWith(1000, 800, 1)
    /\ WidgetsAtRest

RevealNext ==
    \/ \E t \in Tops : SrtScroll(t)
    \/ Frame
    \/ \E auto \in BOOLEAN, dur \in Durations : SrtProps(auto, dur)
    \/ \E b \in BOOLEAN : SrtIntersect(b)
    \/ SrtUnmount

RevealSpec == RevealInit /\ [][RevealNext]_vars

\* ------------------------------------------------------------------------
\* Specification of the timed reveal when the parent never renders again
\* (MagazinePage holds no state).
\* ------------------------------------------------------------------------
SteadyNext ==
    \/ \E b \in BOOLEAN : Intersect(b)
    \/ FireLine
    \/ FireFirst
    \/ FireNext
    \/ FireReady
    \/ Unmount
    \/ Advance

SteadySpec == Init /\ [][SteadyNext]_vars

\* ------------------------------------------------------------------------
\* Specification of the timed reveal under fair timers and a fixed title:
\* time passes, a due timer fires, and the parent may render again with a
\* new bodyBlocks array at any moment.
\* ------------------------------------------------------------------------
RerenderNewArray == Rerender(title, TRUE)

FairNext ==
    \/ \E b \in BOOLEAN : Intersect(b)
    \/ FireLine
    \/ FireFirst
    \/ FireNext
    \/ FireReady
    \/ RerenderNewArray
    \/ Unmount
    \/ Advance

FairSpec ==
    /\ Init
    /\ [][FairNext]_vars
    /\ WF_vars(Advance)
    /\ WF_vars(FireLine) /\ WF_vars(FireFirst) /\ WF_vars(FireNext)
    /\ WF_vars(FireReady)

\* ------------------------------------------------------------------------
\* Specification of VariantsSpaceSection
\* ------------------------------------------------------------------------
VariantInit ==
    /\ ArticleInitWith(<<>>, <<>>)
    /\ ScrollInitWith(0, 2000, 800, 600, Frac(3, 10), "grid", FALSE, 1500)
    /\ \E w \in WindowWidths, h \in WindowHeights, n \in CardCounts :
          VariantInitWith(w, h, n)
    /\ WidgetsAtRest

VariantNext ==
    \/ \E v \in ProgressValues : ProgressChange(v)
    \/ \E w \in WindowWidths, h \in WindowHeights : Resize(w, h)
    \/ MeasureFrame

VariantSpec == VariantInit /\ [][VariantNext]_vars

\* ------------------------------------------------------------------------
\* Specification of the scroll-driven regions for every fadeStart that
\* useStickyFadeOut accepts, the ends of [0,1] included
\* ------------------------------------------------------------------------
FadeStartRange == {Num(0), Frac(3, 10), Num(1)}

FadeInit ==
    /\ ArticleInitWith(<<>>, <<>>)
    /\ \E t \in Tops, h \in Heights, v \in ViewportHeights, w \in ViewportWidths,
          fs \in FadeStartRange, motif \in Motifs :
            ScrollInitWith(t, h, v, w, fs, motif, FALSE, 1500)
    /\ VariantInitWith(1000, 800, 1)
    /\ WidgetsAtRest

FadeSpec == FadeInit /\ [][ScrollNext]_vars

\* ------------------------------------------------------------------------
\* Specification of ScrambleText
\* ------------------------------------------------------------------------
ScrambleInit ==
    /\ ArticleInitWith(<<>>, <<>>)
    /\ ScrollInitWith(0, 2000, 800, 600, Frac(3, 10), "grid", FALSE, 1500)
    /\ VariantInitWith(1000, 800, 1)
    /\ \E initial \in BOOLEAN, t \in ScTexts : ScrambleInitWith(initial, t)
    /\ ModalInitWith("")

ScrambleNext ==
    \/ \E t \in ScTexts : ScSetText(t)
    \/ ScFrame
    \/ ScUnmount

ScrambleSpec == ScrambleInit /\ [][ScrambleNext]_vars

\* ------------------------------------------------------------------------
\* Specification of TermsDetailModal in MagazinePage
\* ------------------------------------------------------------------------
ModalInit ==
    /\ ArticleInitWith(<<>>, <<>>)
    /\ ScrollInitWith(0, 2000, 800, 600, Frac(3, 10), "grid", FALSE, 1500)
    /\ VariantInitWith(1000, 800, 1)
    /\ ScrambleInitWith(FALSE, "ab")
    /\ \E o \in Overflows : ModalInitWith(o)

ModalNext ==
    \/ \E t \in MdTerms : MdDetailClick(t)
    \/ MdClose
    \/ MdRerender
    \/ MdUnmount

ModalSpec == ModalInit /\ [][ModalNext]_vars

\* ========================================================================
\* Claims
\* ========================================================================
NoTimerPending == \A k \in TimerKinds : timers[k] = Off

\* C1: the progress computed by each scroll handler (useStickyFadeOut,
\* LightMetaphorSection, ScrollRevealText.updateProgress) is a number in
\* [0,1] and never NaN, for every region geometry.
C1_ProgressInUnitRange ==
    /\ InUnitRange(stickyProgress)
    /\ InUnitRange(lightProgress)
    /\ InUnitRange(srtProgress)

\* C2: under the distance policy, a region not taller than the viewport has
\* progress 0 at every top offset, and the handler divides by no zero.
C2_DegeneratePinnedToZero ==
    height <= vh =>
        /\ lightProgress = Num(0)
        /\ lhMounted => stickyProgress = Num(0)
        /\ height - vh # 0

\* C3: once ArticleSection is torn down no timer is pending, so no timer
\* callback runs, and isLineDone, visibleBlocks and isNextVisible never change
\* again; torn down before the first block's timer fired, visibleBlocks
\* stays 0.
C3_TeardownCancelsTimers ==
    [][ /\ ~mounted' => NoTimerPending'
        /\ ~mounted => UNCHANGED <<isLineDone, visibleBlocks, isNextVisible>> ]_vars

C3_Witness ==
    /\ ~mounted
    /\ "first" \in cancelled
    /\ visibleBlocks = 0

\* C3 for LeadHeadlineSection (checked under ScrollSpec): once torn down its
\* line timer is not pending.
LhTeardownCancelsTimer == ~lhMounted => lhTimer = Off

LhTeardownWitness == ~lhMounted /\ lhCancelled /\ ~lhLineDone

\* C4: after a ScrollRevealText effect is cleaned up, no frame callback
\* requested before the cleanup calls setProgress.
C4_NoUpdateAfterCleanup == ~lateUpdates

\* C5: visibleBlocks is changed only by timer callbacks, never decreases,
\* advances one block at a time and never exceeds bodyBlocks.length.
C5_NeverRewound ==
    [][ /\ visibleBlocks' >= visibleBlocks
        /\ visibleBlocks' <= visibleBlocks + 1
        /\ visibleBlocks' <= Len(bodyBlocks')
        /\ visibleBlocks' # visibleBlocks => timers["first"] = 0 \/ timers["next"] = 0
      ]_vars

\* C6: every block after the first is revealed exactly its own delay after the
\* reveal of the block before it, the delay 0 included.
C6_RevealedAfterOwnDelay ==
    [][ ( /\ visibleBlocks >= 1
          /\ visibleBlocks' = visibleBlocks + 1
          /\ "delay" \in DOMAIN bodyBlocks[visibleBlocks + 1] )
        => sinceReveal = bodyBlocks[visibleBlocks + 1].delay ]_vars

\* C7 (as claimed): an ArticleSection with no body blocks is fully revealed
\* from mount on and never schedules any timer.
C7_NoTimerEverScheduled ==
    Len(bodyBlocks) = 0 =>
        /\ IsFullyRevealed(bodyBlocks, visibleBlocks)
        /\ everScheduled = {}

\* C7 (amended): an ArticleSection with no body blocks is fully revealed from
\* mount on and never schedules a timer of the reveal sequence (first block,
\* next block, next-visible); the one timer it schedules is the line timer,
\* on viewport entry.
C7_NoRevealTimerScheduled ==
    Len(bodyBlocks) = 0 =>
        /\ IsFullyRevealed(bodyBlocks, visibleBlocks)
        /\ everScheduled \subseteq {"line"}
        /\ \A k \in TimerKinds \ {"line"} : timers[k] = Off
        /\ visibleBlocks = 0 /\ ~isNextVisible

C7_Witness ==
    /\ Len(bodyBlocks) = 0
    /\ title # <<>>
    /\ isLineDone
    /\ everScheduled = {"line"}

\* C8: an ArticleSection with at least one block that has entered the
\* viewport and is not torn down eventually has every block revealed.
C8_EventuallyDone ==
    (mounted /\ isVisible /\ title # <<>> /\ Len(bodyBlocks) >= 1)
        ~> (visibleBlocks = Len(bodyBlocks) \/ ~mounted)

\* C9: isNextVisible is set only when every block is revealed, exactly 2000 ms
\* after the last reveal, at most once, and never returns to false.
C9_ReadySignalOneShot ==
    [][ /\ isNextVisible => isNextVisible'
        /\ readySets' # readySets =>
              /\ Len(bodyBlocks) > 0
              /\ visibleBlocks = Len(bodyBlocks)
              /\ sinceReveal = NextVisibleDelay
              /\ readySets = 0 ]_vars

\* C10: within one display frame the scroll notifications cause at most one
\* measurement-and-apply pass per region.
C10_OnePassPerFrame == \A r \in Regions : passes[r] <= 1

\* C11: every display frame that runs an updateProgress callback requested by
\* onScroll leaves the pending flag (ticking) of that scroll effect cleared,
\* also when the container is not attached.
C11_FrameClearsTicking ==
    [][ ( /\ srtStale + (IF srtRaf THEN 1 ELSE 0) > 0
          /\ srtStale' = 0 /\ ~srtRaf' )
        => ~srtTicking' ]_vars

\* C12: the phase boundaries of every render of VariantsSpaceSection are
\* ordered and inside the progress range:
\* 0 <= convergenceRatio <= cardEnterRatio <= card10Ratio <= slideUpEndRatio <= 1.
C12_BoundariesOrdered ==
    /\ JsLessEq(Num(0), convergenceRatio)
    /\ JsLessEq(convergenceRatio, cardEnterRatio)
    /\ JsLessEq(cardEnterRatio, card10Ratio)
    /\ JsLessEq(card10Ratio, slideUpEndRatio)
    /\ JsLessEq(slideUpEndRatio, Num(1))

\* C13: every change of scrollYProgress selects, for each parameter, a phase
\* of nonzero width, divides by no zero, and computes a phase-local progress
\* in [0,1].
C13_NoZeroWidthPhaseSelected ==
    [][ progressV' # progressV =>
          /\ titlePhase' \in {1, 2, 3}
          /\ titlePhase' = 1 => JsLess(Num(0), convergenceRatio) /\ InUnitRange(titleT')
          /\ titlePhase' = 2 => JsLess(convergenceRatio, card10Ratio) /\ InUnitRange(titleT')
          /\ slidePhase' = 2 => JsLess(card10Ratio, slideUpEndRatio) /\ InUnitRange(slideT')
      ]_vars

\* C14: a change of scrollYProgress to exactly a boundary shared by two phases
\* of nonzero width makes the later phase the active one, with phase-local
\* progress 0, for the title sphere and for the first card alike.
C14_LaterPhaseOwnsBoundary ==
    [][ progressV' # progressV =>
          /\ ( /\ progressV' = convergenceRatio
               /\ JsLess(Num(0), convergenceRatio)
               /\ JsLess(convergenceRatio, card10Ratio) )
             => titlePhase' = 2 /\ titleT' = Num(0)
          /\ ( /\ progressV' = card10Ratio
               /\ JsLess(convergenceRatio, card10Ratio)
               /\ JsLess(card10Ratio, slideUpEndRatio) )
             => /\ titlePhase' = 3
                /\ cardCount > 0 => slidePhase' = 2 /\ slideT' = Num(0)
      ]_vars

\* C15: at each phase boundary the formula of the earlier phase at local
\* progress 1 and the formula of the later phase at local progress 0 give the
\* same value of each interpolated parameter (scrollInfluenceRef, title
\* pattern opacity and translateX, first card translateY).
C15_ContinuousAtBoundaries ==
    /\ ConvergeInfluence(convergenceRatio) = ScatterInfluence(Num(0))
    /\ ScatterInfluence(Num(1)) = Num(0)
    /\ ScatterOpacity(Num(0)) = Num(1)
    /\ ScatterOpacity(Num(1)) = Num(0)
    /\ ScatterX(Num(0)) = Num(0)
    /\ SlideY(Num(0)) = cardAlignOffset
    /\ SlideY(Num(1)) = Num(0)

\* C16: once a resize is processed and no measurement is outstanding, the
\* layout constants the change handler uses are those of the current window
\* and track: convergenceHeight, cardWidth, cardAlignOffset, containerHeight
\* and, through gapWidth and scrollDistance, the phase boundaries.
C16_ConstantsOfCurrentWindow ==
    ~measureRaf =>
        /\ convergenceHeight = Num(innerHeight)
        /\ cardAlignOffset = JsMul(Num(innerHeight), Frac(24, 100))
        /\ cardWidth = CardWidthOf(innerWidth)
        /\ gapWidth = GapWidthOf(innerWidth)
        /\ scrollDistance = Measured(innerWidth, gapWidth, cardCount)
        /\ containerHeight = JsAdd(Num(2 * innerHeight), scrollDistance)

\* C17: at a fixed region geometry the progress of each mapping policy does
\* not decrease as the scroll offset grows, that is as top decreases.
C17_ProgressMonotone ==
    \A t1 \in Tops, t2 \in Tops :
        t1 <= t2 =>
            /\ JsLessEq(StickyProgress(t2, height, vh), StickyProgress(t1, height, vh))
            /\ JsLessEq(LightProgress(t2, height, vh), LightProgress(t1, height, vh))
            /\ JsLessEq(RevealProgress(t2, height, vh), RevealProgress(t1, height, vh))

\* The quotient n / d of two integers, d # 0, clamped to [0,1].
ClampedQuotient(n, d) ==
    LET nn == IF d < 0 THEN 0 - n ELSE n
        dd == IF d < 0 THEN 0 - d ELSE d
    IN  IF nn <= 0 THEN Num(0) ELSE IF nn >= dd THEN Num(1) ELSE Frac(nn, dd)

\* C18: the distance handlers leave progress = clamp(-top / (height -
\* viewport height), 0, 1); a region 2000 high in a viewport 800 high at
\* scroll offset 600 has progress 1/2.
C18_DistanceFormula ==
    /\ height # vh =>
          /\ lightProgress = ClampedQuotient(0 - top, height - vh)
          /\ lhMounted => stickyProgress = ClampedQuotient(0 - top, height - vh)
    /\ (height = 2000 /\ vh = 800 /\ top = 0 - 600) =>
          /\ lightProgress = Frac(1, 2)
          /\ lhMounted => stickyProgress = Frac(1, 2)

C18_Witness ==
    /\ height = 2000 /\ vh = 800 /\ top = 0 - 600
    /\ scrollsThisFrame > 0
    /\ lhMounted
    /\ lightProgress = Frac(1, 2) /\ stickyProgress = Frac(1, 2)

C20_ExactExtremes ==
    /\ (InUnitRange(stickyProgress) /\ JsLessEq(stickyProgress, fadeStart))
          => stickyOpacity = Num(1)
    /\ stickyProgress = Num(1) => stickyOpacity = Num(0)
    /\ lightProgress = Num(0) => lightScale = Num(1)
    /\ (InUnitRange(lightProgress) /\ JsLessEq(Frac(1, 2), lightProgress))
          => lightScale = Frac(6 * Min(vw, vh), 160)
    /\ (InUnitRange(lightProgress) /\ JsLessEq(lightProgress, Frac(6, 10)))
          => lightOpacity = Num(1)
    /\ lightProgress = Num(1) => lightOpacity = Num(0)

C20_Witness ==
    /\ scrollsThisFrame > 0
    /\ lhMounted
    /\ stickyProgress = Num(1) /\ stickyOpacity = Num(0)
    /\ lightProgress = Num(1) /\ lightOpacity = Num(0)
    /\ lightScale = Frac(6 * Min(vw, vh), 160)

\* C21: every opacity a scroll handler writes from a progress in [0,1] is a
\* number in [0,1], and so is every value written to a scrollInfluenceRef.
C21_NoExtrapolation ==
    /\ InUnitRange(stickyProgress) => InUnitRange(stickyOpacity)
    /\ InUnitRange(lightProgress) => InUnitRange(lightOpacity)
    /\ InUnitRange(titleOpacity)
    /\ InUnitRange(titleInfluence)
    /\ InUnitRange(scrollInfluence)

C23_StagesGated ==
    [][ /\ isLineDone' => isVisible'
        /\ visibleBlocks' > 0 => isLineDone'
        /\ (~isLineDone /\ isLineDone') => isVisible /\ sinceReveal = 1200
        /\ isVisible => isVisible'
        /\ isVisible' => ~observing' ]_vars

C23_Witness ==
    /\ mounted
    /\ isVisible /\ ~observing
    /\ isLineDone
    /\ visibleBlocks = 2
    /\ bodyBlocks # <<>>

\* C24: for the grid motif scrollInfluenceRef is 0 while the section centre
\* is half a viewport or more below the viewport centre, (1 - dist / (0.5
\* vh))^2 while it is less than that below, and 1 once it is at or above; it
\* does not decrease as the page scrolls forward; for another motif it
\* stays 0.
C24_OneWayConvergence ==
    LET dist2 == 2 * top + height - vh      \* twice the distance of the centres
    IN  /\ termMotif # "grid" => scrollInfluence = Num(0)
        /\ termMotif = "grid" =>
              /\ dist2 >= vh => scrollInfluence = Num(0)
              /\ (0 < dist2 /\ dist2 < vh) =>
                    scrollInfluence = Frac((vh - dist2) * (vh - dist2), vh * vh)
              /\ dist2 <= 0 => scrollInfluence = Num(1)
        /\ \A t1 \in Tops, t2 \in Tops :
              t1 <= t2 => JsLessEq(TermInfluence(t2, height, vh),
                                   TermInfluence(t1, height, vh))

C24_Witness ==
    /\ termMotif = "grid"
    /\ scrollsThisFrame > 0
    /\ top = 400 /\ height = 400 /\ vh = 800
    /\ scrollInfluence = Frac(1, 4)

ProgressSamples == {Num(0), Frac(1, 2), Frac(9, 10)}

\* C25: at every progress in [0,1] the revealed characters of a text are
\* exactly its first floor(totalChars * progress) characters in reading
\* order: none at progress 0, all of them exactly at progress 1, and not
\* fewer at a larger progress.
C25_RevealedPrefix ==
    InUnitRange(srtProgress) =>
      \A text \in Texts :
        LET flags == RevealedChars(text, srtProgress)
            total == TotalChars(text)
            count == (total * srtProgress.n) \div srtProgress.d
        IN  /\ Len(flags) = total
            /\ \A k \in 1..total : flags[k] <=> k <= count
            /\ srtProgress = Num(0) => \A k \in 1..total : ~flags[k]
            /\ (\A k \in 1..total : flags[k]) <=> srtProgress = Num(1)
            /\ \A q \in ProgressSamples :
                  JsLessEq(q, srtProgress) =>
                      JsLessEq(RevealedCount(text, q), Num(count))

C25_Witness ==
    /\ srtMounted /\ srtAnim
    /\ srtProgress = Frac(2, 3)
    /\ RevealedChars(<<"a", "b", ".", " ", "c">>, srtProgress)
          = <<TRUE, TRUE, FALSE, FALSE>>

\* C26: in autoReveal mode, once the container has intersected the viewport
\* and no animation frame is requested any more, the progress is exactly 1,
\* whatever the autoRevealDuration.
C26_AutoRevealCompletes ==
    (srtMounted /\ srtAutoReveal /\ ~srtObserving /\ ~srtAnim) => srtProgress = Num(1)

\* C27: ScrambleText settles on the current text: whenever the mounted
\* component has no animation frame pending, displayText equals the text prop
\* with every character settled, and isAnimating is false.
C27_SettlesOnCurrentText ==
    (scMounted /\ LiveLoops(scLoops) = {}) =>
        (displayText = Shown(scText) /\ ~isAnimating)

\* C28: at most one ScrambleText animation loop is active, frameRef identifies
\* its pending frame, and no animate callback runs after unmount.
C28_SingleLoop ==
    /\ Cardinality(LiveLoops(scLoops)) <= 1
    /\ \A l \in LiveLoops(scLoops) : frameRef = l
    /\ ~scLate


\* C29: after a progress update the first card's visual has opacity 1 only if
\* the title pattern has opacity 0, and firstCardInfluenceRef is 0.15 exactly
\* when the value is at or past card10Ratio.
C29_HandOff ==
    [][(progressV' # progressV) =>
          /\ (firstCardOpacity' = Num(1)) => (titleOpacity' = Num(0))
          /\ (firstCardInfluence' = Frac(15, 100)) <=> JsLessEq(card10Ratio, progressV')]_vars

\* C30: while the modal is open the body overflow is 'hidden' and the one
\* keydown listener calls the current onClose; whenever it is closed the body
\* overflow is what it was before the first open and no keydown listener is
\* registered.
C30_ScrollLockBalanced ==
    IF mdMounted /\ IsOpen(selectedTerm)
    THEN bodyOverflow = "hidden" /\ keyListeners = {mdRenders}
    ELSE bodyOverflow = overflowBefore /\ keyListeners = {}

\* closed again after an open, a term switch or re-render in between
C30_Witness ==
    /\ mdMounted /\ ~IsOpen(selectedTerm)
    /\ mdOpened /\ mdRenders >= 4
    /\ overflowBefore = "auto" /\ bodyOverflow = "auto"

====
